---------------------------- MODULE Spec2Model ----------------------------
(***************************************************************************)
(* ioserverlib: a Server driven over an owned channel by the background    *)
(* thread that `daemon` spawns, the Daemon handle (is_alive, kill, Clone), *)
(* and the line-delimited JSON serializer the channel delegates to.        *)
(*                                                                         *)
(* The incoming and outgoing streams are sequences of byte tokens: a       *)
(* quote, a message body, a space and a newline.                           *)
(* The incoming stream is a blocking reader: read_line waits until a       *)
(* newline or end of file is there.                                        *)
(***************************************************************************)
EXTENDS Naturals, Sequences, FiniteSets

(* ---------------------------- bounds ---------------------------------- *)

\* chunks of bytes the peer sends on the incoming stream
MaxFeed == 3
\* transport failures (read_line, write_all, flush) the streams produce
MaxFaults == 1
\* Daemon handles alive at the same time (Daemon is Clone)
MaxHandles == 2

(* ---------------------------- values ---------------------------------- *)

None == "None"
Ok == "Ok"

\* S::Message of the crate's example: a string
Msgs == {"ping", "pong", "other"}

NL == "\n"
SP == " "
QUOTE == "q"

\* S::Error: From<std::io::Error> + From<serde_json::Error>
IoRead == "io_read"
IoWrite == "io_write"
Decode == "decode"
Errors == {IoRead, IoWrite, Decode}

(* ------------------------- JsonSerializer ------------------------------ *)

\* mutant of to_vec: the closing quote is left out
to_vec_noclose(m) == <<QUOTE, m>>

\* serde_json::to_vec of a string message: the body between two quotes
to_vec(m) == <<QUOTE, m, QUOTE>>

IsSpace(b) == b \in {SP, NL}

RECURSIVE TrimStart(_)
TrimStart(s) ==
    IF s # <<>> /\ IsSpace(Head(s)) THEN TrimStart(Tail(s)) ELSE s

RECURSIVE TrimEnd(_)
TrimEnd(s) ==
    IF s # <<>> /\ IsSpace(s[Len(s)])
    THEN TrimEnd(SubSeq(s, 1, Len(s) - 1))
    ELSE s

\* mutant of trim_ascii: the line is taken as it is
trim_none(s) == s

\* <[u8]>::trim_ascii, as str::trim_ascii
trim_ascii(s) == TrimEnd(TrimStart(s))

\* serde_json::from_slice::<String>: Ok(body) for one JSON string, else Err
from_slice(s) ==
    IF Len(s) = 3 /\ s[1] = QUOTE /\ s[3] = QUOTE /\ s[2] \in Msgs
    THEN s[2]
    ELSE Decode

\* index of the first newline of s, 0 when there is none
RECURSIVE FirstNL(_, _)
FirstNL(s, i) ==
    IF i > Len(s) THEN 0
    ELSE IF s[i] = NL THEN i
    ELSE FirstNL(s, i + 1)

\* mutant of LineReady: read_line returns with whatever bytes are there
LineReady_short(r, eof) == r # <<>> \/ eof

\* BufRead::read_line on a blocking stream returns once a newline or the end
\* of file is there
LineReady(r, eof) == FirstNL(r, 1) > 0 \/ eof

\* the bytes read_line takes: through the first newline, or all at end of file
LineLen(r) == IF FirstNL(r, 1) > 0 THEN FirstNL(r, 1) ELSE Len(r)

\* mutant of try_read: the bytes buffered past the line are dropped
try_read_unbuffered(r) ==
    LET n == LineLen(r)
        buf == trim_ascii(SubSeq(r, 1, n))
    IN  IF buf # <<>>
        THEN [res |-> from_slice(buf), rest |-> <<>>]
        ELSE [res |-> None, rest |-> <<>>]

\* mutant of try_read: a line that does not decode is left on the stream
try_read_keepbad(r) ==
    LET n == LineLen(r)
        buf == trim_ascii(SubSeq(r, 1, n))
        rest == SubSeq(r, n + 1, Len(r))
    IN  IF buf # <<>>
        THEN [res |-> from_slice(buf),
              rest |-> IF from_slice(buf) = Decode THEN r ELSE rest]
        ELSE [res |-> None, rest |-> rest]

\* JsonSerializer::try_read without a transport failure:
\* [res: a message, None or Decode; rest: the reader after the call]
try_read(r) ==
    LET n == LineLen(r)
        buf == trim_ascii(SubSeq(r, 1, n))
        rest == SubSeq(r, n + 1, Len(r))
    IN  IF buf # <<>>
        THEN [res |-> from_slice(buf), rest |-> rest]
        ELSE [res |-> None, rest |-> rest]

\* mutant of write: the final flush is left out
write_noflush(buf, out, m, failAt) ==
    LET b1 == IF failAt = 1 THEN buf ELSE buf \o to_vec(m)
        b2 == IF failAt \in {1, 2} THEN b1 ELSE Append(b1, NL)
    IN  IF failAt = 0
        THEN [res |-> Ok, buf |-> b2, out |-> out]
        ELSE [res |-> IoWrite, buf |-> b2, out |-> out]

\* mutant of write: the flush comes before the newline is written
write_keepnl(buf, out, m, failAt) ==
    LET b1 == IF failAt = 1 THEN buf ELSE buf \o to_vec(m)
        b2 == IF failAt \in {1, 2} THEN b1 ELSE Append(b1, NL)
    IN  IF failAt = 0
        THEN [res |-> Ok, buf |-> <<NL>>, out |-> out \o b1]
        ELSE [res |-> IoWrite, buf |-> b2, out |-> out]

\* JsonSerializer::write with the transport failing at step `failAt`
\* (0: never, 1: write_all(message), 2: write_all("\n"), 3: flush):
\* [res: Ok or IoWrite; buf: the writer's buffer; out: the transport]
write(buf, out, m, failAt) ==
    LET b1 == IF failAt = 1 THEN buf ELSE buf \o to_vec(m)
        b2 == IF failAt \in {1, 2} THEN b1 ELSE Append(b1, NL)
    IN  IF failAt = 0
        THEN [res |-> Ok, buf |-> <<>>, out |-> out \o b2]
        ELSE [res |-> IoWrite, buf |-> b2, out |-> out]

(* ----------------------------- handlers -------------------------------- *)

\* the handler of the crate's Server example: "ping" -> Some("pong"), _ -> None
messages_handler(m) == IF m = "ping" THEN "pong" ELSE None

(* ------------------------------ state ---------------------------------- *)

VARIABLES
    alive,      \* the Arc<AtomicBool> shared by the thread and the handles
    handles,    \* number of Daemon handles not yet consumed by kill
    observed,   \* what the latest is_alive since the last store to the flag
                \* returned: "true", "false", or "none" without such a call
    pc,         \* where the background thread is
    reader,     \* unread bytes of the channel's incoming stream
    eof,        \* the peer closed the incoming stream
    wbuf,       \* bytes in the channel's writer, not yet flushed
    tx,         \* bytes handed to the outgoing transport
    message,    \* update's local `message`
    response,   \* the handler's result in update
    result,     \* what the latest update returned, "running" while in it
    events,     \* the calls of the current loop iteration, in order
    snap,       \* <<tx, wbuf>> when the current update began
    killed,     \* kill has been called on some handle
    fatal,      \* errors_handler has returned true
    sawFalse,   \* the thread has loaded `false` at the top of its loop
    sent,       \* the messages a direct caller's write returned Ok for
    received,   \* what a direct caller's read and try_read returned, in
                \* order, Ok(None) aside
    afterKill,  \* updates begun since kill (counted to 2)
    killPc,     \* where the thread was at the first kill, "none" before it
    fed,        \* chunks sent so far
    faults      \* transport failures so far

vars == <<alive, handles, observed, pc, reader, eof, wbuf, tx, message,
          response, result, events, snap, killed, fatal, sawFalse,
          afterKill, killPc, fed, faults, sent, received>>

threadVars == <<pc, message, response, result, events, snap, fatal,
                sawFalse, afterKill>>
handleVars == <<handles, observed, killed, killPc>>
streamVars == <<reader, eof, wbuf, tx>>
envVars == <<fed, faults>>
chanVars == <<sent, received>>

\* what the peer sends in one piece: a message line, a blank line, the start
\* of a message, and its end (by itself a malformed line)
Chunks ==
    {to_vec(m) \o <<NL>> : m \in {"ping", "other"}}
        \cup {<<SP, NL>>, <<QUOTE, "ping">>, <<QUOTE, NL>>}

\* daemon(channel, messages_handler, errors_handler) has returned: the flag is
\* true, the thread is spawned and one handle is out
Init ==
    /\ alive = TRUE
    /\ handles = 1
    /\ observed = "none"
    /\ pc = "loop"
    /\ reader = <<>>
    /\ eof = FALSE
    /\ wbuf = <<>>
    /\ tx = <<>>
    /\ message = None
    /\ response = None
    /\ result = "none"
    /\ events = <<>>
    /\ snap = <<<<>>, <<>>>>
    /\ killed = FALSE
    /\ fatal = FALSE
    /\ sawFalse = FALSE
    /\ afterKill = 0
    /\ killPc = "none"
    /\ fed = 0
    /\ faults = 0
    /\ sent = <<>>
    /\ received = <<>>

(* ------------------------ the background thread ------------------------ *)

\* mutant of LoopCheck: the loaded flag does not end the loop
LoopCheck_nobreak ==
    /\ pc = "loop"
    /\ pc' = "update"
    /\ result' = "running"
    /\ events' = <<>>
    /\ snap' = <<tx, wbuf>>
    /\ message' = None
    /\ response' = None
    /\ afterKill' = IF killed /\ afterKill < 2 THEN afterKill + 1 ELSE afterKill
    /\ sawFalse' = (sawFalse \/ ~alive)
    /\ UNCHANGED <<alive, fatal, handleVars, streamVars, envVars>>
    /\ UNCHANGED chanVars

\* while alive.load(Relaxed) { server.update() ... }
LoopCheck ==
    /\ pc = "loop"
    /\ IF alive
       THEN /\ pc' = "update"
            /\ result' = "running"
            /\ events' = <<>>
            /\ snap' = <<tx, wbuf>>
            /\ message' = None
            /\ response' = None
            /\ afterKill' = IF killed /\ afterKill < 2
                            THEN afterKill + 1 ELSE afterKill
            /\ UNCHANGED sawFalse
       ELSE /\ pc' = "exit"
            /\ sawFalse' = TRUE
            /\ UNCHANGED <<result, events, snap, message, response, afterKill>>
    /\ UNCHANGED <<alive, fatal, handleVars, streamVars, envVars>>
    /\ UNCHANGED chanVars

\* update: let message = self.channel.read()?  -- the call
ReadCall ==
    /\ pc = "update"
    /\ pc' = "read"
    /\ events' = Append(events, <<"read", "call">>)
    /\ UNCHANGED <<alive, message, response, result, snap, fatal, sawFalse,
                   afterKill, handleVars, streamVars, envVars>>
    /\ UNCHANGED chanVars

\* mutant of ReadTurn: a decode error is replaced by a default message
ReadTurn_default ==
    /\ pc = "read"
    /\ LineReady(reader, eof)
    /\ LET t == try_read(reader)
       IN  /\ reader' = t.rest
           /\ IF t.res = None
              THEN UNCHANGED <<pc, message, events>>
              ELSE /\ pc' = "handler"
                   /\ message' = IF t.res = Decode THEN "other" ELSE t.res
                   /\ events' = Append(events, <<"read", t.res>>)
    /\ UNCHANGED <<alive, response, result, snap, fatal, sawFalse, afterKill,
                   eof, wbuf, tx, handleVars, envVars>>
    /\ UNCHANGED chanVars

\* Serializer::read: one turn of loop { if let Some(m) = self.try_read(r)? }
\* with read_line returning a line (or the end of file)
ReadTurn ==
    /\ pc = "read"
    /\ LineReady(reader, eof)
    /\ LET t == try_read(reader)
       IN  /\ reader' = t.rest
           /\ IF t.res = None
              THEN UNCHANGED <<pc, message, result, events>>
              ELSE IF t.res = Decode
              THEN /\ pc' = "returned"
                   /\ result' = Decode
                   /\ events' = Append(events, <<"read", Decode>>)
                   /\ UNCHANGED message
              ELSE /\ pc' = "handler"
                   /\ message' = t.res
                   /\ events' = Append(events, <<"read", t.res>>)
                   /\ UNCHANGED result
    /\ UNCHANGED <<alive, response, snap, fatal, sawFalse, afterKill, eof,
                   wbuf, tx, handleVars, envVars>>
    /\ UNCHANGED chanVars

\* the same turn with reader.read_line(&mut buf)? failing in the transport
ReadFault ==
    /\ pc = "read"
    /\ faults < MaxFaults
    /\ faults' = faults + 1
    /\ events' = Append(events, <<"read", IoRead>>)
    /\ pc' = "returned"
    /\ result' = IoRead
    /\ UNCHANGED <<alive, message, response, snap, fatal, sawFalse, afterKill,
                   fed, handleVars, streamVars>>
    /\ UNCHANGED chanVars

\* mutant of HandlerCall: without a response, update reads again
HandlerCall_again ==
    /\ pc = "handler"
    /\ response' = messages_handler(message)
    /\ events' = Append(events, <<"handler", response'>>)
    /\ pc' = IF response' = None THEN "update" ELSE "write"
    /\ UNCHANGED <<alive, message, result, snap, fatal, sawFalse, afterKill,
                   handleVars, streamVars, envVars>>
    /\ UNCHANGED chanVars

\* mutant of HandlerCall: update looks at the flag and gives up once it is false
HandlerCall_cancel ==
    /\ pc = "handler"
    /\ IF alive
       THEN /\ response' = messages_handler(message)
            /\ events' = Append(events, <<"handler", response'>>)
            /\ IF response' = None
               THEN pc' = "returned" /\ result' = Ok
               ELSE pc' = "write" /\ UNCHANGED result
       ELSE /\ pc' = "returned"
            /\ result' = Ok
            /\ UNCHANGED <<response, events>>
    /\ UNCHANGED <<alive, message, snap, fatal, sawFalse, afterKill,
                   handleVars, streamVars, envVars>>
    /\ UNCHANGED chanVars

\* mutant of HandlerCall: the handler is invoked twice with the message
HandlerCall_twice ==
    /\ pc = "handler"
    /\ response' = messages_handler(message)
    /\ events' = events \o << <<"handler", response'>>,
                               <<"handler", response'>> >>
    /\ IF response' = None
       THEN pc' = "returned" /\ result' = Ok
       ELSE pc' = "write" /\ UNCHANGED result
    /\ UNCHANGED <<alive, message, snap, fatal, sawFalse, afterKill,
                   handleVars, streamVars, envVars>>
    /\ UNCHANGED chanVars

\* update: if let Some(response) = (self.handler)(message)
HandlerCall ==
    /\ pc = "handler"
    /\ response' = messages_handler(message)
    /\ events' = Append(events, <<"handler", response'>>)
    /\ IF response' = None
       THEN pc' = "returned" /\ result' = Ok
       ELSE pc' = "write" /\ UNCHANGED result
    /\ UNCHANGED <<alive, message, snap, fatal, sawFalse, afterKill,
                   handleVars, streamVars, envVars>>
    /\ UNCHANGED chanVars

\* mutant of WriteCall: a failed write is tried again
WriteCall_retry ==
    /\ pc = "write"
    /\ \E failAt \in 0..3 :
          /\ failAt > 0 => faults < MaxFaults
          /\ faults' = IF failAt > 0 THEN faults + 1 ELSE faults
          /\ LET w == write(wbuf, tx, response, failAt)
             IN  /\ wbuf' = w.buf
                 /\ tx' = w.out
                 /\ events' = Append(events, <<"write", w.res>>)
                 /\ IF w.res = Ok
                    THEN pc' = "returned" /\ result' = Ok
                    ELSE UNCHANGED <<pc, result>>
    /\ UNCHANGED <<alive, message, response, snap, fatal, sawFalse,
                   afterKill, reader, eof, fed, handleVars>>
    /\ UNCHANGED chanVars

\* update: self.channel.write(response)?; Ok(())
WriteCall ==
    /\ pc = "write"
    /\ \E failAt \in 0..3 :
          /\ failAt > 0 => faults < MaxFaults
          /\ faults' = IF failAt > 0 THEN faults + 1 ELSE faults
          /\ LET w == write(wbuf, tx, response, failAt)
             IN  /\ wbuf' = w.buf
                 /\ tx' = w.out
                 /\ result' = w.res
                 /\ events' = Append(events, <<"write", w.res>>)
    /\ pc' = "returned"
    /\ UNCHANGED <<alive, message, response, snap, fatal, sawFalse,
                   afterKill, reader, eof, fed, handleVars>>
    /\ UNCHANGED chanVars

\* mutant of AfterUpdate: errors_handler is called whatever update returned
AfterUpdate_always ==
    /\ pc = "returned"
    /\ pc' = "errors_handler"
    /\ UNCHANGED <<alive, message, response, result, events, snap, fatal,
                   sawFalse, afterKill, handleVars, streamVars, envVars>>
    /\ UNCHANGED chanVars

\* if let Err(err) = server.update() { ... }
AfterUpdate ==
    /\ pc = "returned"
    /\ pc' = IF result \in Errors THEN "errors_handler" ELSE "loop"
    /\ UNCHANGED <<alive, message, response, result, events, snap, fatal,
                   sawFalse, afterKill, handleVars, streamVars, envVars>>
    /\ UNCHANGED chanVars

\* mutant of ErrorsHandler: any error ends the thread
ErrorsHandler_always ==
    /\ pc = "errors_handler"
    /\ \E stop \in BOOLEAN :
          /\ events' = Append(events,
                 <<"errors_handler", IF stop THEN "true" ELSE "false">>)
          /\ fatal' = (fatal \/ stop)
    /\ alive' = FALSE
    /\ observed' = "none"
    /\ pc' = "exit"
    /\ UNCHANGED <<message, response, result, snap, sawFalse, afterKill,
                   handles, killed, killPc, streamVars, envVars>>
    /\ UNCHANGED chanVars

\* mutant of ErrorsHandler: an error that is not fatal sets the flag again
ErrorsHandler_rearm ==
    /\ pc = "errors_handler"
    /\ \E stop \in BOOLEAN :
          /\ events' = Append(events,
                 <<"errors_handler", IF stop THEN "true" ELSE "false">>)
          /\ alive' = ~stop
          /\ fatal' = (fatal \/ stop)
          /\ pc' = IF stop THEN "exit" ELSE "loop"
    /\ observed' = "none"
    /\ UNCHANGED <<message, response, result, snap, sawFalse, afterKill,
                   handles, killed, killPc, streamVars, envVars>>
    /\ UNCHANGED chanVars

\* mutant of ErrorsHandler: a fatal error breaks without the store
ErrorsHandler_nostore ==
    /\ pc = "errors_handler"
    /\ \E stop \in BOOLEAN :
          /\ events' = Append(events,
                 <<"errors_handler", IF stop THEN "true" ELSE "false">>)
          /\ fatal' = (fatal \/ stop)
          /\ pc' = IF stop THEN "exit" ELSE "loop"
    /\ UNCHANGED <<alive, observed, message, response, result, snap,
                   sawFalse, afterKill, handles, killed, killPc, streamVars,
                   envVars>>
    /\ UNCHANGED chanVars

\* if (errors_handler)(err) { alive.store(false, Release); break; }
ErrorsHandler ==
    /\ pc = "errors_handler"
    /\ \E stop \in BOOLEAN :
          /\ events' = Append(events,
                 <<"errors_handler", IF stop THEN "true" ELSE "false">>)
          /\ IF stop
             THEN /\ alive' = FALSE
                  /\ observed' = "none"
                  /\ fatal' = TRUE
                  /\ pc' = "exit"
             ELSE /\ pc' = "loop"
                  /\ UNCHANGED <<alive, observed, fatal>>
    /\ UNCHANGED <<message, response, result, snap, sawFalse, afterKill,
                   handles, killed, killPc, streamVars, envVars>>
    /\ UNCHANGED chanVars

Thread ==
    \/ LoopCheck
    \/ ReadCall
    \/ ReadTurn
    \/ ReadFault
    \/ HandlerCall
    \/ WriteCall
    \/ AfterUpdate
    \/ ErrorsHandler

(* --------------------------- the handles ------------------------------- *)

\* Daemon::is_alive: self.0.load(Relaxed)
is_alive == alive

IsAlive ==
    /\ handles > 0
    /\ observed' = IF is_alive THEN "true" ELSE "false"
    /\ UNCHANGED <<alive, handles, killed, killPc, threadVars, streamVars,
                   envVars>>
    /\ UNCHANGED chanVars

\* mutant of Kill: the handle is consumed without the store
Kill_nostore ==
    /\ handles > 0
    /\ handles' = handles - 1
    /\ killed' = TRUE
    /\ killPc' = IF killed THEN killPc ELSE pc
    /\ observed' = "none"
    /\ UNCHANGED <<alive, threadVars, streamVars, envVars>>
    /\ UNCHANGED chanVars

\* Daemon::kill(self): self.0.store(false, Release); the handle is consumed
Kill ==
    /\ handles > 0
    /\ alive' = FALSE
    /\ handles' = handles - 1
    /\ killed' = TRUE
    /\ killPc' = IF killed THEN killPc ELSE pc
    /\ observed' = "none"
    /\ UNCHANGED <<threadVars, streamVars, envVars>>
    /\ UNCHANGED chanVars

\* #[derive(Clone)] on Daemon: another handle on the same flag
Clone ==
    /\ handles > 0
    /\ handles < MaxHandles
    /\ handles' = handles + 1
    /\ UNCHANGED <<alive, observed, killed, killPc, threadVars, streamVars,
                   envVars>>
    /\ UNCHANGED chanVars

(* ----------------------------- the peer -------------------------------- *)

Feed ==
    /\ ~eof
    /\ fed < MaxFeed
    /\ \E c \in Chunks : reader' = reader \o c
    /\ fed' = fed + 1
    /\ UNCHANGED <<alive, eof, wbuf, tx, faults, threadVars, handleVars>>
    /\ UNCHANGED chanVars

Close ==
    /\ ~eof
    /\ eof' = TRUE
    /\ UNCHANGED <<alive, reader, wbuf, tx, envVars, threadVars, handleVars>>
    /\ UNCHANGED chanVars

Next ==
    \/ Thread
    \/ IsAlive
    \/ Kill
    \/ Clone
    \/ Feed
    \/ Close

Spec == Init /\ [][Next]_vars

\* the steps the background thread takes by itself; a transport failure is
\* the stream's doing
Running ==
    \/ LoopCheck
    \/ ReadCall
    \/ ReadTurn
    \/ HandlerCall
    \/ WriteCall
    \/ AfterUpdate
    \/ ErrorsHandler

\* the background thread is an operating-system thread: it keeps running
FairSpec == Spec /\ WF_vars(Running)


(* ------------------------- reading the log ----------------------------- *)

\* the latest update has returned
Done == result \in {Ok} \cup Errors

\* the calls update itself made in the current loop iteration
UpdEvents == SelectSeq(events, LAMBDA e : e[1] # "errors_handler")

\* the calls of errors_handler in the current loop iteration
ErrEvents == SelectSeq(events, LAMBDA e : e[1] = "errors_handler")

\* the order update makes its calls in
Order == <<"read", "read", "handler", "write">>

\* from this step on the thread does nothing: no call, no byte read or written
ThreadQuiet ==
    /\ pc' = pc
    /\ events' = events
    /\ wbuf' = wbuf
    /\ tx' = tx
    /\ Len(reader') >= Len(reader)

\* how far the thread is through one loop iteration
Rank(p) ==
    CASE p = "update" -> 1
      [] p = "read" -> 2
      [] p = "handler" -> 3
      [] p = "write" -> 4
      [] p = "returned" -> 5
      [] p = "errors_handler" -> 6
      [] p = "loop" -> 7
      [] p = "exit" -> 8

(* ------------------------------ claims --------------------------------- *)

\* C1: one update that read "ping" (handler: Some("pong")) and whose write did
\* not fail has handed exactly "pong" and a newline to the transport, after
\* what was there, and returned Ok; one update that read "other" (handler:
\* None) made no write, left the outgoing stream alone and returned Ok.
C1_SingleCycle ==
    /\ (Done /\ message = "ping" /\ result # IoWrite) =>
          /\ result = Ok
          /\ wbuf = <<>>
          /\ tx = snap[1] \o snap[2] \o <<QUOTE, "pong", QUOTE, NL>>
    /\ (Done /\ message = "other") =>
          /\ result = Ok
          /\ <<tx, wbuf>> = snap
          /\ Len(UpdEvents) = 3

C1_Witness ==
    /\ pc = "returned"
    /\ message = "ping"
    /\ result = Ok
    /\ tx = <<QUOTE, "pong", QUOTE, NL>>

\* C2: the calls of every update are, in this order, one channel read, then at
\* most one handler call, then at most one channel write; an update that has
\* returned made exactly one read, and the read returned at most one message.
C2_OneReadAtMostOneWrite ==
    /\ Len(UpdEvents) <= 4
    /\ \A i \in 1..Len(UpdEvents) : UpdEvents[i][1] = Order[i]
    /\ Len(UpdEvents) >= 1 => UpdEvents[1][2] = "call"
    /\ Len(UpdEvents) >= 2 => UpdEvents[2][2] # "call"
    /\ pc \in {"read", "handler", "write"} => Len(UpdEvents) >= 1
    /\ Done => Len(UpdEvents) >= 2

C2_Witness ==
    /\ pc = "returned"
    /\ Len(UpdEvents) = 4
    /\ UpdEvents[4] = <<"write", Ok>>

\* C3: an update whose read failed with error e returned e, made no handler
\* call and no write, and left the writer and the transport as they were.
C3_ReadErrorReturned ==
    \A e \in Errors :
        (Done /\ Len(UpdEvents) >= 2 /\ UpdEvents[2] = <<"read", e>>) =>
            /\ result = e
            /\ Len(UpdEvents) = 2
            /\ <<tx, wbuf>> = snap

C3_Witness ==
    /\ pc = "returned"
    /\ UpdEvents = <<<<"read", "call">>, <<"read", Decode>>>>
    /\ Len(tx) > 0

\* C4: an update whose write failed returned the write error after exactly one
\* read, one handler call and one write call; and no update makes a write call
\* for anything but the response its own handler call just returned.
C4_WriteErrorReturned ==
    /\ (Done /\ \E i \in 1..Len(UpdEvents) : UpdEvents[i] = <<"write", IoWrite>>)
          => /\ result = IoWrite
             /\ UpdEvents = <<<<"read", "call">>, <<"read", message>>,
                              <<"handler", response>>, <<"write", IoWrite>>>>
    /\ \A i \in 1..Len(UpdEvents) :
          UpdEvents[i][1] = "write" =>
             /\ i > 1
             /\ UpdEvents[i - 1] = <<"handler", response>>
             /\ response = messages_handler(message)
             /\ response # None

C4_Witness ==
    /\ pc = "update"
    /\ faults > 0
    /\ wbuf = <<QUOTE, "pong", QUOTE, NL>>

\* C5 as claimed: while kill has not been called, is_alive reports true.
C5_AliveUntilKill == ~killed => (is_alive /\ observed # "false")

\* C5, amended: while kill has not been called and errors_handler has not
\* returned true, is_alive reports true.
C5_AliveUntilKillOrFatal ==
    (~killed /\ ~fatal) => (is_alive /\ observed # "false")

C5_Witness ==
    /\ ~killed
    /\ ~fatal
    /\ observed = "true"
    /\ result \in Errors
    /\ pc = "loop"

\* C6: the flag starts true and once it is false it stays false; after kill,
\* is_alive is false and no is_alive call on a remaining handle returns true.
C6_OneDirectional ==
    /\ [][alive = FALSE => alive' = FALSE]_vars
    /\ [](killed => (~is_alive /\ observed # "true"))
    /\ [](~(killed \/ fatal) => alive)

C6_Witness ==
    /\ killed
    /\ handles > 0
    /\ observed = "false"
    /\ pc = "write"

\* C7: once the thread has loaded false at the top of its loop it is out of
\* the loop and makes no further call and reads and writes no further byte.
C7_NoWorkAfterSeeingFalse ==
    /\ [](sawFalse => pc = "exit")
    /\ [][sawFalse => ThreadQuiet]_vars
    /\ [][(pc = "loop" /\ ~alive) => (pc' \in {"loop", "exit"})]_vars

C7_Witness ==
    /\ sawFalse
    /\ pc = "exit"
    /\ FirstNL(reader, 1) > 0
    /\ try_read(reader).res = "ping"

C9_FatalStops ==
    /\ [](fatal => (pc = "exit" /\ ~is_alive /\ observed # "true"))
    /\ [][fatal => ThreadQuiet]_vars

C9_Witness ==
    /\ fatal
    /\ ~killed
    /\ observed = "false"
    /\ FirstNL(reader, 1) > 0

\* C10: a step in which errors_handler returns false leaves the flag as it is
\* and takes the thread to the top of its loop, from where, the flag being
\* true, its next step begins an update; errors_handler has been called once
\* when the loop iteration of a failed update is over, and never for an update
\* that returned Ok.
C10_NonFatalContinues ==
    /\ [][(events' # events /\ events' # <<>>
             /\ events'[Len(events')] = <<"errors_handler", "false">>)
          => (alive' = alive /\ pc' = "loop")]_vars
    /\ [][(pc = "loop" /\ alive /\ pc' # pc) => pc' = "update"]_vars
    /\ []((pc \in {"loop", "exit"} /\ result \in Errors) => Len(ErrEvents) = 1)
    /\ [](result \notin Errors => Len(ErrEvents) = 0)
    /\ [](pc = "errors_handler" => (result \in Errors /\ Len(ErrEvents) = 0))

C10_Witness ==
    /\ pc = "update"
    /\ alive
    /\ ~fatal
    /\ faults > 0

\* C11 as claimed: is_alive is true exactly while the background thread has
\* not left its loop.
C11_AliveIffRunning == is_alive <=> (pc # "exit")

(* ------------------- the channel used directly ------------------------- *)

\* UniChannel { reader: ReadChannel<R, ..>, writer: WriteChannel<W, ..> }
\* as a value: the reader's unread bytes, the writer's buffer and transport
Channel == [reader |-> reader, wbuf |-> wbuf, tx |-> tx]

\* ReadChannel::try_read: self.serializer.try_read(&mut self.reader)
ReadChannel_try_read(r) == try_read(r)

\* WriteChannel::write: self.serializer.write(&mut self.writer, message)
WriteChannel_write(buf, out, m, failAt) == write(buf, out, m, failAt)

\* mutant of UniChannel_try_read: the call goes to the other stream
UniChannel_try_read_transposed(ch) ==
    LET t == ReadChannel_try_read(ch.tx)
    IN  [res |-> t.res, ch |-> [ch EXCEPT !.tx = t.rest]]

\* UniChannel::try_read: self.reader.try_read()
UniChannel_try_read(ch) ==
    LET t == ReadChannel_try_read(ch.reader)
    IN  [res |-> t.res, ch |-> [ch EXCEPT !.reader = t.rest]]

\* UniChannel::write: self.writer.write(message)
UniChannel_write(ch, m, failAt) ==
    LET w == WriteChannel_write(ch.wbuf, ch.tx, m, failAt)
    IN  [res |-> w.res, ch |-> [ch EXCEPT !.wbuf = w.buf, !.tx = w.out]]

\* BiChannel::try_read: self.serializer.try_read(&mut self.io), the io
\* stream having a side that is read and a side that is written
BiChannel_try_read(io) ==
    LET t == try_read(io.reader)
    IN  [res |-> t.res, ch |-> [io EXCEPT !.reader = t.rest]]

\* BiChannel::write: self.serializer.write(&mut self.io, message)
BiChannel_write(io, m, failAt) ==
    LET w == write(io.wbuf, io.tx, m, failAt)
    IN  [res |-> w.res, ch |-> [io EXCEPT !.wbuf = w.buf, !.tx = w.out]]

\* the daemon's variables, which a program using the channel directly
\* leaves alone
daemonVars == <<alive, handles, observed, response, snap, killed, fatal,
                sawFalse, afterKill, killPc, eof, message, result>>

\* one UniChannel whose writer's transport is a pipe into its own reader,
\* held by a caller that is between two calls
ChanInit ==
    /\ alive = TRUE
    /\ handles = 1
    /\ observed = "none"
    /\ pc = "caller"
    /\ reader = <<>>
    /\ eof = FALSE
    /\ wbuf = <<>>
    /\ tx = <<>>
    /\ message = None
    /\ response = None
    /\ result = "none"
    /\ events = <<>>
    /\ snap = <<<<>>, <<>>>>
    /\ killed = FALSE
    /\ fatal = FALSE
    /\ sawFalse = FALSE
    /\ afterKill = 0
    /\ killPc = "none"
    /\ fed = 0
    /\ faults = 0
    /\ sent = <<>>
    /\ received = <<>>

\* what the caller sends, as the crate's client example ("ping") and one
\* message the example handler has no answer to
Requests == {"ping", "other"}

\* channel.write(m) by the caller
ChannelWrite ==
    /\ pc = "caller"
    /\ fed < MaxFeed
    /\ fed' = fed + 1
    /\ \E m \in Requests, failAt \in 0..3 :
          /\ failAt > 0 => faults < MaxFaults
          /\ faults' = IF failAt > 0 THEN faults + 1 ELSE faults
          /\ LET w == UniChannel_write(Channel, m, failAt)
             IN  /\ wbuf' = w.ch.wbuf
                 /\ tx' = w.ch.tx
                 /\ reader' = w.ch.reader
                 /\ events' = <<<<"write", m, w.res>>>>
                 /\ sent' = IF w.res = Ok THEN Append(sent, m) ELSE sent
    /\ UNCHANGED <<pc, received, daemonVars>>

\* channel.try_read() by the caller: the call, which then sits in read_line
TryReadCall ==
    /\ pc = "caller"
    /\ pc' = "try_read"
    /\ events' = <<<<"try_read", "call">>>>
    /\ UNCHANGED <<streamVars, envVars, chanVars, daemonVars>>

\* channel.try_read() returning once read_line has its line
TryReadReturn ==
    /\ pc = "try_read"
    /\ LineReady(reader, eof)
    /\ LET t == UniChannel_try_read(Channel)
       IN  /\ reader' = t.ch.reader
           /\ wbuf' = t.ch.wbuf
           /\ tx' = t.ch.tx
           /\ events' = Append(events, <<"try_read", t.res>>)
           /\ received' = IF t.res = None THEN received
                          ELSE Append(received, t.res)
    /\ pc' = "caller"
    /\ UNCHANGED <<sent, envVars, daemonVars>>

\* channel.read() by the caller: UniChannel::read -> ReadChannel::read ->
\* Serializer::read, entering its loop
ChannelReadCall ==
    /\ pc = "caller"
    /\ pc' = "read"
    /\ events' = <<<<"read", "call">>>>
    /\ UNCHANGED <<streamVars, envVars, chanVars, daemonVars>>

\* mutant of ChannelReadTurn: a decode error is skipped like a blank line
ChannelReadTurn_skiperr ==
    /\ pc = "read"
    /\ LineReady(reader, eof)
    /\ LET t == try_read(reader)
       IN  /\ reader' = t.rest
           /\ IF t.res \in {None, Decode}
              THEN /\ events' = Append(events, <<"turn", t.res>>)
                   /\ UNCHANGED <<pc, received>>
              ELSE /\ events' = events \o <<<<"turn", t.res>>,
                                            <<"read", t.res>>>>
                   /\ received' = Append(received, t.res)
                   /\ pc' = "caller"
    /\ UNCHANGED <<wbuf, tx, sent, envVars, daemonVars>>

\* Serializer::read on the channel's reader, one turn of
\* loop { if let Some(message) = self.try_read(reader)? { return Ok(message) } }
ChannelReadTurn ==
    /\ pc = "read"
    /\ LineReady(reader, eof)
    /\ LET t == try_read(reader)
       IN  /\ reader' = t.rest
           /\ IF t.res = None
              THEN /\ events' = Append(events, <<"turn", None>>)
                   /\ UNCHANGED <<pc, received>>
              ELSE /\ events' = events \o <<<<"turn", t.res>>,
                                            <<"read", t.res>>>>
                   /\ received' = Append(received, t.res)
                   /\ pc' = "caller"
    /\ UNCHANGED <<wbuf, tx, sent, envVars, daemonVars>>

\* reader.read_line(&mut buf)? failing in the transport, in either call
ChannelReadFault ==
    /\ pc \in {"try_read", "read"}
    /\ faults < MaxFaults
    /\ faults' = faults + 1
    /\ events' = IF pc = "read"
                 THEN events \o <<<<"turn", IoRead>>, <<"read", IoRead>>>>
                 ELSE Append(events, <<"try_read", IoRead>>)
    /\ received' = Append(received, IoRead)
    /\ pc' = "caller"
    /\ UNCHANGED <<fed, sent, streamVars, daemonVars>>

\* the blank lines another writer of the same pipe may put on it
BlankLines == {<<NL>>, <<SP, NL>>}

WireBlank ==
    /\ fed < MaxFeed
    /\ fed' = fed + 1
    /\ \E b \in BlankLines : tx' = tx \o b
    /\ UNCHANGED <<pc, events, reader, wbuf, faults, chanVars, daemonVars>>

\* the pipe hands some of the flushed bytes to the reading end; what arrives
\* while a call waits in read_line is noted
Deliver ==
    /\ tx # <<>>
    /\ \E k \in 1..Len(tx) :
          /\ reader' = reader \o SubSeq(tx, 1, k)
          /\ tx' = SubSeq(tx, k + 1, Len(tx))
    /\ events' = IF pc # "caller" /\ ~LineReady(reader, eof)
                 THEN Append(events,
                     <<"wire", IF LineReady(reader', eof) THEN "line"
                                                          ELSE "partial">>)
                 ELSE events
    /\ UNCHANGED <<pc, wbuf, envVars, chanVars, daemonVars>>

ChanNext ==
    \/ ChannelWrite
    \/ TryReadCall
    \/ TryReadReturn
    \/ ChannelReadCall
    \/ ChannelReadTurn
    \/ ChannelReadFault
    \/ WireBlank
    \/ Deliver

ChanSpec == ChanInit /\ [][ChanNext]_vars

IsPrefix(s, t) == Len(s) <= Len(t) /\ s = SubSeq(t, 1, Len(s))

(* ------------------------ the channel's claims ------------------------- *)

\* C12: without a transport failure, what read and try_read return is, in
\* order, a prefix of the messages the writes sent: the i-th message read is
\* the i-th message written, none lost, repeated, reordered or mangled.
C12_SequentialOrder == faults = 0 => IsPrefix(received, sent)

C12_Witness ==
    /\ faults = 0
    /\ Len(sent) = 3
    /\ sent[1] # sent[2]
    /\ received = sent

\* the messages a reader decodes from the bytes s, taking line after line
RECURSIVE DecodeAll(_)
DecodeAll(s) ==
    IF s = <<>> THEN <<>>
    ELSE LET t == try_read(s)
         IN  IF t.res = None THEN DecodeAll(t.rest)
             ELSE <<t.res>> \o DecodeAll(t.rest)

\* C13: round trip. Without a transport failure, the bytes write has put on
\* the stream decode, by try_read, to exactly the written messages not yet
\* read, value for value; and what has been read equals what was written.
C13_RoundTrip ==
    faults = 0 =>
        /\ Len(received) <= Len(sent)
        /\ DecodeAll(reader \o tx)
               = SubSeq(sent, Len(received) + 1, Len(sent))
        /\ \A i \in 1..Len(received) : received[i] = sent[i]

C13_Witness ==
    /\ faults = 0
    /\ sent = <<"other", "ping">>
    /\ received = <<"other">>
    /\ events # <<>>
    /\ events[Len(events)] = <<"read", "other">>

\* the stream holds bytes of a line without its newline, and nothing else
PartialOnly(r) == r # <<>> /\ FirstNL(r, 1) = 0

\* try_read returning Ok(None) with the stream as it was
TryReadNoneInPlace ==
    /\ TryReadReturn
    /\ events' = Append(events, <<"try_read", None>>)
    /\ reader' = reader

BlankHead(r) ==
    /\ FirstNL(r, 1) > 0
    /\ \A i \in 1..FirstNL(r, 1) : IsSpace(r[i])

\* the stream after its first line
AfterLine(r) == SubSeq(r, FirstNL(r, 1) + 1, Len(r))

\* C15: a try_read that takes a blank line (empty or whitespace only) returns
\* Ok(None), never an error, having consumed exactly that line; inside read
\* such a turn is followed by another turn, so read skips blank lines, and
\* what read returns is the message of the next line that is not blank.
C15_BlankLinesSkipped ==
    /\ [][(pc = "try_read" /\ pc' = "caller" /\ BlankHead(reader)
              /\ faults' = faults)
             => /\ events' = Append(events, <<"try_read", None>>)
                /\ reader' = AfterLine(reader)
                /\ received' = received]_vars
    /\ [][(pc = "read" /\ BlankHead(reader) /\ events' # events
              /\ Len(reader') < Len(reader))
             => /\ events' = Append(events, <<"turn", None>>)
                /\ reader' = AfterLine(reader)
                /\ received' = received
                /\ pc' = "read"]_vars
    /\ [](( /\ faults = 0
            /\ events # <<>>
            /\ events[Len(events)][1] = "read"
            /\ events[Len(events)][2] # "call" )
          => /\ received # <<>>
             /\ Len(received) <= Len(sent)
             /\ events[Len(events)][2] = sent[Len(received)]
             /\ ~BlankHead(to_vec(events[Len(events)][2]) \o <<NL>>))

C15_Witness ==
    events = << <<"read", "call">>, <<"turn", None>>, <<"turn", None>>,
                <<"turn", "other">>, <<"read", "other">> >>

\* C16: a write that returns Ok has handed the whole encoding of its message,
\* newline included, to the transport, after whatever the writer still held:
\* nothing is left in the writer's buffer.
C16_WriteOkFlushed ==
    [][sent' # sent
          => /\ wbuf' = <<>>
             /\ tx' = tx \o wbuf \o to_vec(sent'[Len(sent')]) \o <<NL>>
             /\ events' = << <<"write", sent'[Len(sent')], Ok>> >>]_vars

C16_Witness ==
    /\ events = << <<"write", "ping", Ok>> >>
    /\ sent = <<"ping">>
    /\ faults = 1
    /\ wbuf = <<>>
    /\ tx = to_vec("other") \o <<NL>> \o to_vec("ping") \o <<NL>>

\* the current call's log without the arrivals of bytes
IsCallEvent(e) == e[1] # "wire"
CallLog == SelectSeq(events, IsCallEvent)

\* C17: within one call of read, every try_read follows the call or a
\* try_read that returned Ok(None); after an Ok(None) the loop is still
\* running; the first result that is a message or an error is what read
\* returns, unchanged, and no try_read follows it.
C17_ReadLoop ==
    (events # <<>> /\ events[1] = <<"read", "call">>) =>
        LET L == CallLog
            n == Len(L)
        IN  /\ \A i \in 2..n :
                  /\ L[i][1] \in {"turn", "read"}
                  /\ L[i][1] = "turn" => (i = 2 \/ L[i-1] = <<"turn", None>>)
                  /\ L[i][1] = "read" =>
                        /\ i = n
                        /\ L[i][2] # None
                        /\ L[i-1] = <<"turn", L[i][2]>>
            /\ L[n][1] = "turn" => (L[n][2] = None /\ pc = "read")
            /\ L[n] = <<"read", "call">> => (n = 1 /\ pc = "read")
            /\ (L[n][1] = "read" /\ n > 1) => pc = "caller"

C17_Witness ==
    events = << <<"read", "call">>, <<"turn", None>>, <<"turn", Decode>>,
                <<"read", Decode>> >>

\* a step on which the caller's write returns, with success or with an error
WriteStep == pc = "caller" /\ (sent' # sent \/ faults' = faults + 1)

\* a step on which try_read was run on the stream, directly or by read
ReadStep ==
    /\ pc \in {"try_read", "read"}
    /\ Len(CallLog') > Len(CallLog)
    /\ faults' = faults

\* the result of the serializer's try_read that the step's log holds
StepResult(log) ==
    IF log[Len(log)][1] = "read" THEN log[Len(log) - 1][2]
    ELSE log[Len(log)][2]

\* C18: the channel only delegates. A try_read or a turn of read on the
\* channel gives the result of the serializer's try_read on the reader
\* stream, leaves that stream as the serializer left it, and leaves the
\* writer's buffer and transport alone; a write gives the result of the
\* serializer's write on the writer stream, leaves it as the serializer left
\* it, and leaves the reader stream alone. BiChannel does the same on the two
\* sides of its one stream.
C18_PureDelegation ==
    /\ [][ReadStep
             => /\ StepResult(events') = try_read(reader).res
                /\ reader' = try_read(reader).rest
                /\ wbuf' = wbuf /\ tx' = tx /\ sent' = sent
                /\ BiChannel_try_read(Channel)
                       = UniChannel_try_read(Channel)]_vars
    /\ [][WriteStep
             => /\ \E failAt \in 0..3 :
                      LET m == events'[1][2]
                          w == write(wbuf, tx, m, failAt)
                      IN  /\ events' = << <<"write", m, w.res>> >>
                          /\ wbuf' = w.buf
                          /\ tx' = w.out
                          /\ BiChannel_write(Channel, m, failAt)
                                 = UniChannel_write(Channel, m, failAt)
                /\ reader' = reader /\ received' = received]_vars

C18_Witness ==
    /\ events = << <<"try_read", "call">>, <<"try_read", "ping">> >>
    /\ wbuf # <<>>
    /\ tx # <<>>
    /\ reader # <<>>

(* ------------------- the daemon's claims, continued -------------------- *)

\* the update that was in flight at the kill has returned
KilledInFlight ==
    /\ killed
    /\ killPc \in {"update", "read", "handler", "write"}
    /\ pc \in {"returned", "errors_handler", "loop", "exit"}

\* C19: after kill no flag check lets an update in, so the only update that
\* can begin after it is the one whose check came before the store; an update
\* in flight goes on as if nothing had happened: from the read it can only
\* go to the handler or return an error, the handler is called with the
\* message read, a response is written, and only then does update return.
C19_KillCooperative ==
    /\ [](killed => afterKill = 0)
    /\ [][(killed /\ pc = "update" /\ pc' = "read") => killPc = "update"]_vars
    /\ [][(killed /\ pc = "read" /\ pc' # pc)
             => \/ pc' = "handler" /\ message' \in Msgs
                \/ pc' = "returned" /\ result' \in {IoRead, Decode}]_vars
    /\ [][(killed /\ pc = "handler" /\ pc' # pc)
             => /\ response' = messages_handler(message)
                /\ events' = Append(events, <<"handler", response'>>)
                /\ pc' = IF response' = None THEN "returned"
                                              ELSE "write"]_vars
    /\ [][(killed /\ pc = "write" /\ pc' # pc)
             => /\ pc' = "returned"
                /\ \E failAt \in 0..3 :
                      /\ tx' = write(wbuf, tx, response, failAt).out
                      /\ result' = write(wbuf, tx, response, failAt).res]_vars
    /\ [](( /\ KilledInFlight
            /\ \E i \in 1..Len(events) :
                  events[i][1] = "read" /\ events[i][2] \in Msgs )
          => /\ \E i \in 1..Len(events) :
                   events[i] = <<"handler", messages_handler(message)>>
             /\ messages_handler(message) # None
                   => \E i \in 1..Len(events) : events[i][1] = "write")

C19_Witness ==
    /\ killed
    /\ killPc = "read"
    /\ pc = "exit"
    /\ ~fatal
    /\ events = << <<"read", "call">>, <<"read", "ping">>,
                   <<"handler", "pong">>, <<"write", Ok>> >>
    /\ tx = to_vec("pong") \o <<NL>>

(* ------------- Server::update called by the server's owner ------------- *)

\* Server::new(channel, handler), held by an owner that is between two calls
\* of update; `events` then is the log of all the calls so far
ServerInit ==
    /\ alive = TRUE
    /\ handles = 1
    /\ observed = "none"
    /\ pc = "owner"
    /\ reader = <<>>
    /\ eof = FALSE
    /\ wbuf = <<>>
    /\ tx = <<>>
    /\ message = None
    /\ response = None
    /\ result = "none"
    /\ events = <<>>
    /\ snap = <<<<>>, <<>>>>
    /\ killed = FALSE
    /\ fatal = FALSE
    /\ sawFalse = FALSE
    /\ afterKill = 0
    /\ killPc = "none"
    /\ fed = 0
    /\ faults = 0
    /\ sent = <<>>
    /\ received = <<>>

\* server.update() by the owner: the call
UpdateCall ==
    /\ pc = "owner"
    /\ pc' = "update"
    /\ result' = "running"
    /\ message' = None
    /\ response' = None
    /\ snap' = <<tx, wbuf>>
    /\ UNCHANGED <<alive, events, fatal, sawFalse, afterKill, handleVars,
                   streamVars, envVars, chanVars>>

\* update has returned its Result to the owner
UpdateReturn ==
    /\ pc = "returned"
    /\ pc' = "owner"
    /\ UNCHANGED <<alive, message, response, result, events, snap, fatal,
                   sawFalse, afterKill, handleVars, streamVars, envVars,
                   chanVars>>

ServerNext ==
    \/ UpdateCall
    \/ ReadCall
    \/ ReadTurn
    \/ ReadFault
    \/ HandlerCall
    \/ WriteCall
    \/ UpdateReturn
    \/ Feed
    \/ Close

ServerSpec == ServerInit /\ [][ServerNext]_vars

\* the messages on the complete lines of the bytes s, in order; blank and
\* malformed lines are no messages
RECURSIVE CompleteMsgs(_)
CompleteMsgs(s) ==
    IF FirstNL(s, 1) = 0 THEN <<>>
    ELSE LET t == try_read(s)
         IN  IF t.res \in Msgs THEN <<t.res>> \o CompleteMsgs(t.rest)
             ELSE CompleteMsgs(t.rest)

\* the messages the reads of the log returned, in order
RECURSIVE ReadsOf(_)
ReadsOf(log) ==
    IF log = <<>> THEN <<>>
    ELSE IF Head(log)[1] = "read" /\ Head(log)[2] \in Msgs
    THEN <<Head(log)[2]>> \o ReadsOf(Tail(log))
    ELSE ReadsOf(Tail(log))

\* what the handler calls of the log returned, in order
RECURSIVE ResultsOf(_)
ResultsOf(log) ==
    IF log = <<>> THEN <<>>
    ELSE IF Head(log)[1] = "handler"
    THEN <<Head(log)[2]>> \o ResultsOf(Tail(log))
    ELSE ResultsOf(Tail(log))

\* the bytes of the handler results rs that are not None, written in order
RECURSIVE EncodeAll(_)
EncodeAll(rs) ==
    IF rs = <<>> THEN <<>>
    ELSE IF Head(rs) = None THEN EncodeAll(Tail(rs))
    ELSE to_vec(Head(rs)) \o <<NL>> \o EncodeAll(Tail(rs))

\* the messages of the incoming stream so far: those read, then those waiting
StreamMsgs(log, r) == ReadsOf(log) \o CompleteMsgs(r)

\* the handler results whose write, if any, has been made
Answered ==
    LET rs == ResultsOf(events)
    IN  IF pc = "write" THEN SubSeq(rs, 1, Len(rs) - 1) ELSE rs

\* C20: over the calls of update on one channel, the messages read are the
\* messages of the incoming stream in their order (no step of the program
\* changes the sequence "read so far, then waiting", and the peer only adds
\* bytes at the end); every message read is followed by exactly one handler
\* call, made with it, before anything else is read; and without a transport
\* failure the outgoing stream holds exactly the handler results that are
\* not None, in that order.
C20_HandledInOrder ==
    /\ [][(fed' = fed /\ (events' # events \/ reader' # reader))
             => StreamMsgs(events', reader') = StreamMsgs(events, reader)]_vars
    /\ [][fed' # fed
             => IsPrefix(reader, reader') /\ events' = events]_vars
    /\ [](\A i \in 1..Len(events) :
             /\ events[i][1] = "handler"
                   => /\ i > 1
                      /\ events[i-1][1] = "read"
                      /\ events[i-1][2] \in Msgs
                      /\ events[i][2] = messages_handler(events[i-1][2])
             /\ (events[i][1] = "read" /\ events[i][2] \in Msgs)
                   => IF i = Len(events)
                      THEN pc = "handler" /\ message = events[i][2]
                      ELSE events[i+1][1] = "handler")
    /\ [](faults = 0 =>
             /\ wbuf = <<>>
             /\ tx = EncodeAll(Answered))

C20_Witness ==
    /\ faults = 0
    /\ pc = "owner"
    /\ ReadsOf(events) = <<"ping", "other", "ping">>
    /\ ResultsOf(events) = <<"pong", None, "pong">>
    /\ tx = EncodeAll(<<"pong", "pong">>)

\* the step on which update's read returns a decode error
DecodeStep == pc = "read" /\ pc' = "returned" /\ result' = Decode

\* the update before the one now reading ended in a decode error
AfterDecodeError ==
    /\ Len(events) >= 2
    /\ events[Len(events)] = <<"read", "call">>
    /\ events[Len(events) - 1] = <<"read", Decode>>

\* C21: the read that fails with a decode error has consumed the whole line
\* it failed on, a line that is not blank and does not decode, and nothing
\* else: the messages waiting behind it are all still there. The read of the
\* next update therefore returns the message of the first line after it that
\* holds one, and takes the stream to just behind that line.
C21_DecodeErrorConsumesLine ==
    /\ [][DecodeStep
             => LET n == LineLen(reader)
                    line == SubSeq(reader, 1, n)
                IN  /\ n > 0
                    /\ \E i \in 1..n : ~IsSpace(line[i])
                    /\ from_slice(trim_ascii(line)) = Decode
                    /\ reader' = SubSeq(reader, n + 1, Len(reader))
                    /\ CompleteMsgs(reader') = CompleteMsgs(reader)
                    /\ events' = Append(events, <<"read", Decode>>)]_vars
    /\ [][(AfterDecodeError /\ pc = "read" /\ pc' = "handler")
             => /\ CompleteMsgs(reader) # <<>>
                /\ message' = Head(CompleteMsgs(reader))
                /\ CompleteMsgs(reader') = Tail(CompleteMsgs(reader))]_vars

C21_Witness ==
    /\ Len(events) >= 4
    /\ events[1] = <<"read", "call">>
    /\ events[2] = <<"read", Decode>>
    /\ events[3] = <<"read", "call">>
    /\ events[4] = <<"read", "other">>
    /\ ~eof
    /\ CompleteMsgs(reader) = <<"ping">>

=============================================================================
